---- MODULE Spec2Model ----
(***************************************************************************)
(* A model of packagery (src/packagery/__init__.py): the dependency graph  *)
(* collector with its work stack, and the parsers and helpers around it.   *)
(*                                                                         *)
(* A path is a tuple of its components; a codebase file is a list of      *)
(* "import <name>" statements; the import resolver is the standard         *)
(* library's modulefinder.ModuleFinder restricted to the root directory.   *)
(***************************************************************************)
EXTENDS Integers, Sequences, FiniteSets, TLC

\* ------------------------------------------------------------------ bounds

\* Import statements in the whole codebase.
MaxImports == 2
\* Seed paths handed to collect_dependency_graph.
MaxSeeds == 2

\* ------------------------------------------------------- the code base

\* root_dir, an absolute path.
RootDir == <<"/", "src">>

\* The modules that have a file directly under root_dir (a.py, b.py, c.py).
LocalModules == {"a", "b", "c"}

\* sys.builtin_module_names as far as the code base imports them: "sys" is in
\* the standard library list, "_ext" is compiled into the interpreter and is not.
BuiltinModuleNames == {"sys", "_ext"}

\* Names that are nowhere under root_dir: third-party ("PIL"), a standard
\* library module with a PyPI backport ("dataclasses"), a standard library
\* module ("os"), and two modules nobody provides ("x", "y").
ForeignNames == {"PIL", "dataclasses", "os", "x", "y"}

ImportableNames == LocalModules \cup BuiltinModuleNames \cup ForeignNames

\* stdlib_list.stdlib_list() as a set, restricted to the names above.
STDLIB_SET == {"sys", "os", "dataclasses"}

\* No file: module.__file__ is None.
None == <<>>

FileName(name) == name \o ".py"

\* The relative path of the file of a local module.
RelPathOf(name) == <<FileName(name)>>

RelPaths == {RelPathOf(n) : n \in LocalModules}

\* root_dir / rel_pth
JoinPath(root, rel) == root \o rel

\* pathlib.Path(file).relative_to(root): the components after root.
RelativeTo(pth, root) == SubSeq(pth, Len(root) + 1, Len(pth))

\* os.path.splitext(os.path.basename(pathname))[0]
ModuleNameOfFile(pth) == CHOOSE n \in LocalModules : FileName(n) = pth[Len(pth)]

\* ------------------------------------------------------------ the state

VARIABLES
    \* the code base: module name -> the names its file imports, in order
    imports,
    \* collect_dependency_graph's arguments
    rel_paths, requirements, module_to_requirement,
    \* collect_dependency_graph's locals
    stack, package, unresolved_module_set,
    \* where the call is: "loop" (at the while test), "returned", "raised"
    pc,
    \* the exception that ended the call, or NoError
    error,
    \* the returned Package, or NoResult
    result,
    \* history: the paths the loop has resolved, in order
    processed,
    \* parse_requirements: the lines of the text, the lines consumed, the
    \* OrderedDict built, where the call is, the exception, the mapping returned
    req_text, req_i, req_result, req_pc, req_error, req_returned,
    \* parse_module_to_requirement: the characters of the text, the rows
    \* consumed, the OrderedDict built, where the call is, the exception, the
    \* mapping returned
    tsv_text, tsv_i, tsv_result, tsv_pc, tsv_error, tsv_returned,
    \* resolve_initial_paths: the argument, the paths consumed, seen_pths, the
    \* list built, where the call is, the exception, the list returned
    initial_paths, rip_i, seen_pths, rip_result, rip_pc, rip_error, rip_returned,
    \* missing_requirements: the module map as its (module, package) items, the
    \* names of the registry, the items consumed, the list built, seen, where
    \* the call is, the list returned
    mis_module_to_requirement, mis_requirements, mis_i, mis_result, mis_seen, mis_pc,
    mis_returned,
    \* output: the Package, the a_format argument, what was written to the
    \* stream, where the call is, the exception
    out_package, a_format, out_stream, out_pc, out_error,
    \* _format_table: the argument, where the call is, the exception, the
    \* string returned
    table, tbl_pc, tbl_error, tbl_returned

reqVars == <<req_text, req_i, req_result, req_pc, req_error, req_returned>>

tsvVars == <<tsv_text, tsv_i, tsv_result, tsv_pc, tsv_error, tsv_returned>>

ripVars == <<initial_paths, rip_i, seen_pths, rip_result, rip_pc, rip_error, rip_returned>>

collectVars == <<imports, rel_paths, requirements, module_to_requirement, stack,
                 package, unresolved_module_set, pc, error, result, processed>>

misVars == <<mis_module_to_requirement, mis_requirements, mis_i, mis_result, mis_seen, mis_pc,
            mis_returned>>

outVars == <<out_package, a_format, out_stream, out_pc, out_error>>

tblVars == <<table, tbl_pc, tbl_error, tbl_returned>>

\* Everything but collect_dependency_graph's state.
notCollect == <<reqVars, tsvVars, ripVars, misVars, outVars, tblVars>>

NoError == "none"
NoResult == [returned |-> FALSE]

\* A function that is not being called.
RequirementsIdle ==
    /\ req_text = <<>> /\ req_i = 0 /\ req_result = <<>>
    /\ req_pc = "idle" /\ req_error = NoError /\ req_returned = NoResult

ModuleMapIdle ==
    /\ tsv_text = <<>> /\ tsv_i = 0 /\ tsv_result = <<>>
    /\ tsv_pc = "idle" /\ tsv_error = NoError /\ tsv_returned = NoResult

PathsIdle ==
    /\ initial_paths = <<>> /\ rip_i = 0 /\ seen_pths = {} /\ rip_result = <<>>
    /\ rip_pc = "idle" /\ rip_error = NoError /\ rip_returned = NoResult

MissingIdle ==
    /\ mis_module_to_requirement = <<>> /\ mis_requirements = {} /\ mis_i = 0
    /\ mis_result = <<>> /\ mis_seen = {} /\ mis_pc = "idle" /\ mis_returned = NoResult

OutputIdle ==
    /\ out_package = <<>> /\ a_format = "" /\ out_stream = ""
    /\ out_pc = "idle" /\ out_error = NoError

TableIdle ==
    /\ table = <<>> /\ tbl_pc = "idle" /\ tbl_error = NoError /\ tbl_returned = NoResult

\* The functions of the module other than the four with a specification above
\* them are not being called.
OthersIdle == MissingIdle /\ OutputIdle /\ TableIdle

\* ----------------------------------------------------- the import resolver

\* modulefinder.ModuleFinder(path=[root_dir]): the modules found, in the order
\* found (name, __file__), and the names that could not be imported.
NewModuleFinder == [modules |-> <<>>, badmodules |-> <<>>]

ModuleNames(mf) == {mf.modules[i].name : i \in 1..Len(mf.modules)}

BadNames(mf) == {mf.badmodules[i] : i \in 1..Len(mf.badmodules)}

AddModule(mf, name, file) ==
    [mf EXCEPT !.modules = Append(@, [name |-> name, file |-> file])]

RECURSIVE ImportHook(_, _)
RECURSIVE ScanCode(_, _, _)

\* One "import name" met while scanning: a module already loaded is not loaded
\* again; a builtin has no file; a file under root_dir is loaded and scanned in
\* turn; anything else is a bad module.
ImportHook(name, mf) ==
    IF name \in ModuleNames(mf) THEN mf
    ELSE IF name \in BadNames(mf) THEN mf
    ELSE IF name \in BuiltinModuleNames THEN AddModule(mf, name, None)
    ELSE IF name \in LocalModules
         THEN ScanCode(imports[name], 1,
                       AddModule(mf, name, JoinPath(RootDir, RelPathOf(name))))
    ELSE [mf EXCEPT !.badmodules = Append(@, name)]

\* The import statements code[i..] of a file, in order.
ScanCode(code, i, mf) ==
    IF i > Len(code) THEN mf
    ELSE ScanCode(code, i + 1, ImportHook(code[i], mf))

\* mfder.load_file(pathname): the file is loaded under its base name, then scanned.
LoadFile(pathname) ==
    LET name == ModuleNameOfFile(pathname)
    IN  ScanCode(imports[name], 1, AddModule(NewModuleFinder, name, pathname))

\* ------------------------------------------------------ Requirement, Package

\* A dict: a function on its keys.
EmptyDict == [k \in {} |-> None]

DictPut(d, key, val) == [k \in DOMAIN d \cup {key} |-> IF k = key THEN val ELSE d[k]]

\* Requirement(name, line): the line ends with a newline.
Requirement(name, line) ==
    [name |-> name,
     line |-> IF line # <<>> /\ line[Len(line)] = "\n" THEN line ELSE Append(line, "\n")]

\* UnresolvedModule(name, importer_rel_path)
UnresolvedModule(name, importer_rel_path) ==
    [name |-> name, imported_from |-> importer_rel_path]

\* Package()
NewPackage == [requirements |-> EmptyDict, rel_paths |-> {}, unresolved_modules |-> <<>>]

\* ------------------------------------------- collect_dependency_graph

\* The locals before the first test of "while stack".
StartOfCollect(a_rel_paths) ==
    [stack |-> a_rel_paths,
     package |-> NewPackage,
     unresolved_module_set |-> {},
     pc |-> "loop",
     error |-> NoError,
     processed |-> <<>>]

\* A plausible slip: a mapped package that the registry lacks is skipped.
RecordRequirementOrSkip(st, req_name) ==
    IF req_name \in DOMAIN st.package.requirements THEN st
    ELSE IF req_name \notin DOMAIN requirements THEN st
    ELSE [st EXCEPT !.package.requirements = DictPut(@, req_name, requirements[req_name])]

\* "if req_name not in package.requirements:
\*      package.requirements[req_name] = requirements[req_name]"
\* The lookup in the registry raises KeyError for a package it does not have.
RecordRequirement(st, req_name) ==
    IF req_name \in DOMAIN st.package.requirements THEN st
    ELSE IF req_name \notin DOMAIN requirements
         THEN [st EXCEPT !.error = "KeyError"]
         ELSE [st EXCEPT !.package.requirements =
                             DictPut(@, req_name, requirements[req_name])]

\* A plausible slip: the set of seen names is not consulted.
RecordUnresolvedAlways(st, module_name, rel_pth) ==
    [st EXCEPT !.unresolved_module_set = @ \cup {module_name},
               !.package.unresolved_modules =
                   Append(@, UnresolvedModule(module_name, rel_pth))]

\* A plausible slip: the module is credited to pth, the path under root_dir.
RecordUnresolvedAbsolute(st, module_name, rel_pth) ==
    IF module_name \in st.unresolved_module_set THEN st
    ELSE [st EXCEPT !.unresolved_module_set = @ \cup {module_name},
                    !.package.unresolved_modules =
                        Append(@, UnresolvedModule(module_name, JoinPath(RootDir, rel_pth)))]

\* A plausible slip: a name seen again is credited to the file that imports it now.
RecordUnresolvedLastImporter(st, module_name, rel_pth) ==
    IF module_name \in st.unresolved_module_set
    THEN [st EXCEPT !.package.unresolved_modules =
                        [i \in 1..Len(@) |->
                            IF @[i].name = module_name
                            THEN UnresolvedModule(module_name, rel_pth)
                            ELSE @[i]]]
    ELSE [st EXCEPT !.unresolved_module_set = @ \cup {module_name},
                    !.package.unresolved_modules =
                        Append(@, UnresolvedModule(module_name, rel_pth))]

\* "if module_name not in unresolved_module_set:
\*      unresolved_module_set.add(module_name)
\*      package.unresolved_modules.append(UnresolvedModule(...))"
RecordUnresolved(st, module_name, rel_pth) ==
    IF module_name \in st.unresolved_module_set THEN st
    ELSE [st EXCEPT !.unresolved_module_set = @ \cup {module_name},
                    !.package.unresolved_modules =
                        Append(@, UnresolvedModule(module_name, rel_pth))]

\* A plausible slip: the standard library is tested before the module map.
BadModuleStepStdlibFirst(st, module_name, rel_pth) ==
    IF st.error # NoError THEN st
    ELSE IF module_name \in STDLIB_SET THEN st
    ELSE IF module_name \in DOMAIN module_to_requirement
         THEN RecordRequirement(st, module_to_requirement[module_name])
    ELSE RecordUnresolved(st, module_name, rel_pth)

\* A plausible slip: a mapped name is recorded as unresolved as well.
BadModuleStepMappedAndUnresolved(st, module_name, rel_pth) ==
    IF st.error # NoError THEN st
    ELSE IF module_name \in DOMAIN module_to_requirement
         THEN RecordUnresolved(RecordRequirement(st, module_to_requirement[module_name]),
                               module_name, rel_pth)
    ELSE IF module_name \in STDLIB_SET THEN st
    ELSE RecordUnresolved(st, module_name, rel_pth)

\* The body of "for module_name in mfder.badmodules" for one name; an exception
\* raised earlier in the iteration has ended the loop.
BadModuleStep(st, module_name, rel_pth) ==
    IF st.error # NoError THEN st
    ELSE IF module_name \in DOMAIN module_to_requirement
         THEN RecordRequirement(st, module_to_requirement[module_name])
    ELSE IF module_name \in STDLIB_SET THEN st
    ELSE RecordUnresolved(st, module_name, rel_pth)

\* A plausible slip: the file of a module found is not pushed.
ModuleStepNoPush(st, module, rel_pth) ==
    IF st.error # NoError THEN st
    ELSE IF module.file = None
    THEN IF module.name \notin STDLIB_SET
         THEN [st EXCEPT !.error = "AssertionError: no __file__"]
         ELSE st
    ELSE [st EXCEPT !.package.rel_paths = @ \cup {rel_pth}]

\* A plausible slip: a module without a file is passed over, whatever its name.
ModuleStepIgnoresFileless(st, module, rel_pth) ==
    IF st.error # NoError THEN st
    ELSE IF module.file = None THEN st
    ELSE [st EXCEPT !.stack = Append(@, RelativeTo(module.file, RootDir)),
                    !.package.rel_paths = @ \cup {rel_pth}]

\* A plausible slip: the file of the module found is added, not the file resolved.
ModuleStepAddsImported(st, module, rel_pth) ==
    IF st.error # NoError THEN st
    ELSE IF module.file = None
    THEN IF module.name \notin STDLIB_SET
         THEN [st EXCEPT !.error = "AssertionError: no __file__"]
         ELSE st
    ELSE [st EXCEPT !.stack = Append(@, RelativeTo(module.file, RootDir)),
                    !.package.rel_paths = @ \cup {RelativeTo(module.file, RootDir)}]

\* The body of "for module_name, module in mfder.modules.items()" for one module.
ModuleStep(st, module, rel_pth) ==
    IF st.error # NoError THEN st
    ELSE IF module.file = None
    THEN IF module.name \notin STDLIB_SET
         THEN [st EXCEPT !.error = "AssertionError: no __file__"]
         ELSE st
    ELSE [st EXCEPT !.stack = Append(@, RelativeTo(module.file, RootDir)),
                    !.package.rel_paths = @ \cup {rel_pth}]

RECURSIVE ForBadModules(_, _, _, _)
ForBadModules(st, badmodules, i, rel_pth) ==
    IF i > Len(badmodules) THEN st
    ELSE ForBadModules(BadModuleStep(st, badmodules[i], rel_pth), badmodules, i + 1, rel_pth)

RECURSIVE ForModules(_, _, _, _)
ForModules(st, modules, i, rel_pth) ==
    IF i > Len(modules) THEN st
    ELSE ForModules(ModuleStep(st, modules[i], rel_pth), modules, i + 1, rel_pth)

\* The assertion that ends an iteration.
AssertOneAdded(st, len_rel_paths_before) ==
    IF st.error # NoError THEN st
    ELSE IF len_rel_paths_before + 1 = Cardinality(st.package.rel_paths) THEN st
    ELSE [st EXCEPT !.error = "AssertionError: one dependency at a step"]

\* An exception leaves the loop.
Raise(st) == IF st.error # NoError THEN [st EXCEPT !.pc = "raised"] ELSE st

\* A plausible slip: no test, every popped path is resolved.
NeverVisited(st, rel_pth) == FALSE

\* "if rel_pth in package.rel_paths"
AlreadyVisited(st, rel_pth) == rel_pth \in st.package.rel_paths

\* A plausible slip: "break" for "continue".
BreakOnRevisit(st) == [st EXCEPT !.stack = <<>>]

\* "continue": the path popped is dropped.
ContinueOnRevisit(st) == st

\* One iteration of "while stack" with a non-empty stack.
Iteration(st) ==
    LET rel_pth == st.stack[Len(st.stack)]
        popped == [st EXCEPT !.stack = SubSeq(@, 1, Len(@) - 1)]
        len_rel_paths_before == Cardinality(st.package.rel_paths)
    IN  IF AlreadyVisited(st, rel_pth) THEN ContinueOnRevisit(popped)
        ELSE LET pth == JoinPath(RootDir, rel_pth)
                 mfder == LoadFile(pth)
                 loaded == [popped EXCEPT !.processed = Append(@, rel_pth)]
                 bad == ForBadModules(loaded, mfder.badmodules, 1, rel_pth)
                 mods == ForModules(bad, mfder.modules, 1, rel_pth)
             IN  Raise(AssertOneAdded(mods, len_rel_paths_before))

\* The locals as one record.
Locals ==
    [stack |-> stack, package |-> package,
     unresolved_module_set |-> unresolved_module_set,
     pc |-> pc, error |-> error, processed |-> processed]

SetLocals(st) ==
    /\ stack' = st.stack
    /\ package' = st.package
    /\ unresolved_module_set' = st.unresolved_module_set
    /\ pc' = st.pc
    /\ error' = st.error
    /\ processed' = st.processed

\* "while stack": the popped path is already in package.rel_paths.
Revisit ==
    /\ pc = "loop"
    /\ stack # <<>>
    /\ AlreadyVisited(Locals, stack[Len(stack)])
    /\ SetLocals(Iteration(Locals))
    /\ UNCHANGED <<imports, rel_paths, requirements, module_to_requirement, result>>
    /\ UNCHANGED notCollect

\* "while stack": the popped path is resolved; the iteration ends normally.
Visit ==
    /\ pc = "loop"
    /\ stack # <<>>
    /\ ~AlreadyVisited(Locals, stack[Len(stack)])
    /\ Iteration(Locals).error = NoError
    /\ SetLocals(Iteration(Locals))
    /\ UNCHANGED <<imports, rel_paths, requirements, module_to_requirement, result>>
    /\ UNCHANGED notCollect

\* "while stack": the popped path is resolved; the iteration raises.
VisitRaises ==
    /\ pc = "loop"
    /\ stack # <<>>
    /\ ~AlreadyVisited(Locals, stack[Len(stack)])
    /\ Iteration(Locals).error # NoError
    /\ SetLocals(Iteration(Locals))
    /\ UNCHANGED <<imports, rel_paths, requirements, module_to_requirement, result>>
    /\ UNCHANGED notCollect

\* "return package" once the stack is empty.
Return ==
    /\ pc = "loop"
    /\ stack = <<>>
    /\ pc' = "returned"
    /\ result' = [returned |-> TRUE, package |-> package]
    /\ UNCHANGED <<imports, rel_paths, requirements, module_to_requirement, stack,
                   package, unresolved_module_set, error, processed>>
    /\ UNCHANGED notCollect

\* ---------------------------------------------------------- the inputs

RECURSIVE SeqsUpTo(_, _)
\* The sequences over S of length at most n.
SeqsUpTo(S, n) ==
    IF n = 0 THEN {<<>>}
    ELSE LET shorter == SeqsUpTo(S, n - 1)
         IN  shorter \cup {Append(s, x) : s \in shorter, x \in S}

\* The names that the statements of a list of (module, name) import statements
\* put into the file of module m, in order.
RECURSIVE StatementsOf(_, _)
StatementsOf(stmts, m) ==
    IF stmts = <<>> THEN <<>>
    ELSE LET rest == StatementsOf(SubSeq(stmts, 2, Len(stmts)), m)
         IN  IF stmts[1][1] = m THEN <<stmts[1][2]>> \o rest ELSE rest

\* The code bases with at most MaxImports import statements.
CodeBases ==
    {[m \in LocalModules |-> StatementsOf(stmts, m)] :
        stmts \in SeqsUpTo(LocalModules \X ImportableNames, MaxImports)}

\* A requirement line as the characters of its specification.
PinnedLine(name) == <<name, "==", "1.0">>

\* The registry parsed from a requirements.txt naming the packages S.
RegistryOf(S) == [p \in S |-> Requirement(p, PinnedLine(p))]

\* module_to_requirement.tsv of the code base.
ModuleMap == [m \in {"PIL", "dataclasses"} |-> IF m = "PIL" THEN "pillow" ELSE "dataclasses"]

\* The registries: the complete one, and one that lacks a mapped package.
Registries == {RegistryOf({"pillow", "dataclasses"}), RegistryOf({"pillow"})}

Init ==
    /\ imports \in CodeBases
    /\ rel_paths \in SeqsUpTo(RelPaths, MaxSeeds)
    /\ requirements \in Registries
    /\ module_to_requirement = ModuleMap
    /\ stack = StartOfCollect(rel_paths).stack
    /\ package = StartOfCollect(rel_paths).package
    /\ unresolved_module_set = StartOfCollect(rel_paths).unresolved_module_set
    /\ pc = StartOfCollect(rel_paths).pc
    /\ error = StartOfCollect(rel_paths).error
    /\ processed = StartOfCollect(rel_paths).processed
    /\ result = NoResult
    /\ RequirementsIdle
    /\ ModuleMapIdle
    /\ PathsIdle
    /\ OthersIdle

Next == Revisit \/ Visit \/ VisitRaises \/ Return

vars == <<collectVars, reqVars, tsvVars, ripVars, misVars, outVars, tblVars>>

Spec == Init /\ [][Next]_vars

\* collect_dependency_graph(root_dir, rel_paths, requirements, module_to_requirement)
\* run to its end as a function of the seed list.
RECURSIVE RunLoop(_)
RunLoop(st) ==
    IF st.pc # "loop" THEN st
    ELSE IF st.stack = <<>> THEN [st EXCEPT !.pc = "returned"]
    ELSE RunLoop(Iteration(st))

Collect(a_rel_paths) == RunLoop(StartOfCollect(a_rel_paths))

\* ------------------------------------------------- what the claims speak of

\* The resolver's report on a code base file.
Report(rel_pth) == LoadFile(JoinPath(RootDir, rel_pth))

SeqToSet(s) == {s[i] : i \in 1..Len(s)}

\* The code base files the resolver reports for a file.
ImportedFiles(rel_pth) ==
    {RelativeTo(m.file, RootDir) : m \in {m \in SeqToSet(Report(rel_pth).modules) : m.file # None}}

\* The names the resolver reports as not importable for a file.
ReportedBad(rel_pth) == SeqToSet(Report(rel_pth).badmodules)

RECURSIVE Reachable(_)
\* The files reachable from the set S through ImportedFiles.
Reachable(S) ==
    LET more == S \cup UNION {ImportedFiles(f) : f \in S}
    IN  IF more = S THEN S ELSE Reachable(more)

Returned == pc = "returned"

NoDuplicates(s) == \A i, j \in 1..Len(s) : s[i] = s[j] => i = j

\* The reported names of a file that end as unresolved modules.
ReportedUnresolved(rel_pth) ==
    {n \in ReportedBad(rel_pth) : n \notin DOMAIN module_to_requirement /\ n \notin STDLIB_SET}

\* The reported names of a file that the module map gives a package for.
ReportedMapped(rel_pth) == ReportedBad(rel_pth) \cap DOMAIN module_to_requirement

\* missing_requirements(...) == []: every mapped package is in the registry.
RegistryComplete ==
    \A m \in DOMAIN module_to_requirement : module_to_requirement[m] \in DOMAIN requirements

UnresolvedNames(pkg) == [i \in 1..Len(pkg.unresolved_modules) |-> pkg.unresolved_modules[i].name]

\* ---------------------------------------------------------------- claims

\* C1: a returned package holds exactly the files reachable from the seeds
\* through the resolver's reports: the seeds, whatever they import directly
\* or transitively, and nothing else.
C1_RelPathsAreTheReachableFiles ==
    Returned => result.package.rel_paths = Reachable(SeqToSet(rel_paths))

\* C1 witness: a returned run whose seed a.py reaches c.py only through b.py.
C1_Witness ==
    /\ Returned
    /\ rel_paths = <<RelPathOf("a")>>
    /\ imports["a"] = <<"b">>
    /\ imports["b"] = <<"c">>
    /\ result.package.rel_paths = RelPaths

\* The files of the code base that are not in package.rel_paths yet.
Unvisited(pkg) == RelPaths \ pkg.rel_paths

\* C2: every iteration either ends the call or makes the pair (files not yet
\* in rel_paths, length of the stack) smaller in the lexicographic order, for
\* every code base, with cycles and shared imports, so the loop runs out of
\* iterations; it returns with the stack empty; no path is resolved twice.
C2_LoopEndsAndResolvesOnce ==
    /\ [][pc = "loop" =>
            \/ pc' # "loop"
            \/ Cardinality(Unvisited(package')) < Cardinality(Unvisited(package))
            \/ /\ Unvisited(package') = Unvisited(package)
               /\ Len(stack') < Len(stack)]_vars
    /\ [](Returned => stack = <<>>)
    /\ [](NoDuplicates(processed))

\* C2 witness: a returned run over two seeds that import each other: each is
\* popped again after it was resolved.
C2_Witness ==
    /\ Returned
    /\ rel_paths = <<RelPathOf("a"), RelPathOf("b")>>
    /\ imports["a"] = <<"b">>
    /\ imports["b"] = <<"a">>
    /\ processed = <<RelPathOf("b"), RelPathOf("a")>>
    /\ stack = <<>>

\* C3: with every mapped package in the registry, a returned package requires
\* p exactly when a file of the package reports a bad module mapped to p, and
\* each requirement is the registry's own record.
C3_RequirementsAreTheMappedOnes ==
    (Returned /\ RegistryComplete) =>
        /\ DOMAIN result.package.requirements =
               {module_to_requirement[m] :
                   m \in UNION {ReportedMapped(f) : f \in result.package.rel_paths}}
        /\ \A p \in DOMAIN result.package.requirements :
               /\ p \in DOMAIN requirements
               /\ result.package.requirements[p] = requirements[p]

\* C3 witness: a returned package that requires one mapped package and not the other.
C3_Witness ==
    /\ Returned
    /\ RegistryComplete
    /\ DOMAIN result.package.requirements = {"dataclasses"}
    /\ Cardinality(result.package.rel_paths) = 2

\* C4: in every state no two unresolved modules have the same name, and the
\* names of the list are the set of names seen.
C4_UnresolvedNamesAreUnique ==
    /\ NoDuplicates(UnresolvedNames(package))
    /\ SeqToSet(UnresolvedNames(package)) = unresolved_module_set
    /\ Returned => result.package.unresolved_modules = package.unresolved_modules

\* C4 witness: two resolved files report the same missing module, recorded once.
C4_Witness ==
    /\ Returned
    /\ Len(processed) = 2
    /\ "x" \in ReportedUnresolved(processed[1]) \cap ReportedUnresolved(processed[2])
    /\ Len(result.package.unresolved_modules) = 1

\* The first path resolved whose report has the name as an unresolved module.
FirstReporter(name) ==
    processed[CHOOSE k \in 1..Len(processed) :
                  /\ name \in ReportedUnresolved(processed[k])
                  /\ \A j \in 1..(k - 1) : name \notin ReportedUnresolved(processed[j])]

IsPrefixOf(s, t) == Len(s) <= Len(t) /\ SubSeq(t, 1, Len(s)) = s

\* C5: every unresolved module is credited to the first path, in the order the
\* paths were resolved, whose report has it as an unresolved module; the paths
\* are resolved as they are popped from the top of the stack, the last seed
\* first; an entry once appended is never changed, moved or removed.
C5_FirstImporterIsCredited ==
    /\ [](\A i \in 1..Len(package.unresolved_modules) :
            LET um == package.unresolved_modules[i]
            IN  /\ \E k \in 1..Len(processed) : um.name \in ReportedUnresolved(processed[k])
                /\ um.imported_from = FirstReporter(um.name))
    /\ []((processed # <<>>) => processed[1] = rel_paths[Len(rel_paths)])
    /\ [][processed' # processed =>
            /\ processed' = Append(processed, stack[Len(stack)])
            /\ stack[Len(stack)] \notin package.rel_paths]_vars
    /\ [][IsPrefixOf(package.unresolved_modules, package.unresolved_modules')]_vars

\* C5 witness: both seeds report "x"; the last-listed seed, popped first, is credited.
C5_Witness ==
    /\ Returned
    /\ rel_paths = <<RelPathOf("a"), RelPathOf("b")>>
    /\ imports["a"] = <<"x">>
    /\ imports["b"] = <<"x">>
    /\ result.package.unresolved_modules = <<UnresolvedModule("x", RelPathOf("b"))>>

\* C6: once a resolved file has reported a bad module whose mapped package is
\* not in the registry, the call has raised and returns no Package.
C6_MissingMappedPackageRaises ==
    (\E k \in 1..Len(processed) : \E m \in ReportedMapped(processed[k]) :
         module_to_requirement[m] \notin DOMAIN requirements)
    => (pc = "raised" /\ error = "KeyError" /\ result = NoResult)

\* C6 witness: the second file resolved reports the module of the missing
\* package, after the first has put a requirement into the package.
C6_Witness ==
    /\ pc = "raised"
    /\ Len(processed) = 2
    /\ "dataclasses" \in ReportedMapped(processed[2])
    /\ "dataclasses" \notin DOMAIN requirements
    /\ DOMAIN package.requirements = {"pillow"}

Reverse(s) == [i \in 1..Len(s) |-> s[Len(s) + 1 - i]]

\* The orderings of a seed list of at most MaxSeeds paths.
Orderings(s) ==
    {t \in SeqsUpTo(SeqToSet(s), Len(s)) :
        /\ Len(t) = Len(s)
        /\ \A x \in SeqToSet(s) :
               Cardinality({i \in 1..Len(s) : s[i] = x}) = Cardinality({i \in 1..Len(t) : t[i] = x})}

\* C7 as claimed: any other ordering of the seeds returns the same files, the
\* same requirements and the same sequence of unresolved module names.
C7_AsClaimed ==
    Returned =>
        \A t \in Orderings(rel_paths) :
            LET other == Collect(t)
            IN  /\ other.pc = "returned"
                /\ other.package.rel_paths = result.package.rel_paths
                /\ other.package.requirements = result.package.requirements
                /\ UnresolvedNames(other.package) = UnresolvedNames(result.package)

\* C7, amended: any other ordering of the seeds returns the same files, the
\* same requirements and the same set of unresolved module names; the order of
\* the unresolved modules and the file each is credited to may differ.
C7_OrderOnlyMovesUnresolved ==
    Returned =>
        \A t \in Orderings(rel_paths) :
            LET other == Collect(t)
            IN  /\ other.pc = "returned"
                /\ other.package.rel_paths = result.package.rel_paths
                /\ other.package.requirements = result.package.requirements
                /\ SeqToSet(UnresolvedNames(other.package)) =
                       SeqToSet(UnresolvedNames(result.package))

\* C7 witness: two seeds that report the same missing module; the other
\* ordering credits the other seed.
C7_Witness ==
    /\ Returned
    /\ rel_paths = <<RelPathOf("a"), RelPathOf("b")>>
    /\ result.package.unresolved_modules = <<UnresolvedModule("x", RelPathOf("b"))>>
    /\ Collect(Reverse(rel_paths)).package.unresolved_modules =
           <<UnresolvedModule("x", RelPathOf("a"))>>

\* ------------------------------------------------------------------
\* parse_requirements
\* ------------------------------------------------------------------

\* Lines of a requirements.txt.
MaxReqLines == 3

CollectIdle ==
    /\ imports = [m \in LocalModules |-> <<>>]
    /\ rel_paths = <<>> /\ requirements = EmptyDict /\ module_to_requirement = EmptyDict
    /\ stack = <<>> /\ package = NewPackage /\ unresolved_module_set = {}
    /\ pc = "idle" /\ error = NoError /\ result = NoResult /\ processed = <<>>

\* A line is the list of its tokens: a package name, a version specifier,
\* white space, the start of a comment, a word of a comment, the locator of a
\* repository without an egg fragment.
PackageNames == {"foo", "bar"}
Specifiers == {"==1", "==2"}
Locators == {"git+https://host/repo"}

\* The lines a text is made of: empty, blank, a comment, requirements with and
\* without a specifier, white space or a comment around them, a locator that
\* names no package, and a line that is no requirement.
LineForms ==
    { <<>>, <<" ">>, <<"#", "note">>,
      <<"foo">>, <<"foo", "==1">>, <<" ", "foo", "==2", " ">>, <<"foo", " ", "#", "note">>,
      <<"bar">>, <<"git+https://host/repo">>, <<"==1">> }

RECURSIVE LStrip(_)
LStrip(line) ==
    IF line # <<>> /\ line[1] = " " THEN LStrip(SubSeq(line, 2, Len(line))) ELSE line

RECURSIVE RStrip(_)
RStrip(line) ==
    IF line # <<>> /\ line[Len(line)] = " " THEN RStrip(SubSeq(line, 1, Len(line) - 1)) ELSE line

\* line.strip()
Strip(line) == RStrip(LStrip(line))

\* requirements_parser.parse skips the lines that are empty or a comment.
IsSkipped(line) == IF Strip(line) = <<>> THEN TRUE ELSE Strip(line)[1] = "#"

RECURSIVE WellFormedTail(_)
\* What may follow the package name: specifiers and white space, then a comment.
WellFormedTail(tokens) ==
    IF tokens = <<>> THEN TRUE
    ELSE IF tokens[1] = "#" THEN TRUE
    ELSE /\ tokens[1] \in Specifiers \cup {" "}
         /\ WellFormedTail(SubSeq(tokens, 2, Len(tokens)))

\* req.name is None
NoName == ""

\* requirements_parser's Requirement.parse on a stripped line: the name (none
\* for a locator without an egg fragment) and the line, or a parse error.
ParseRequirementLine(line) ==
    LET stripped == Strip(line)
    IN  IF stripped[1] \in PackageNames /\ WellFormedTail(SubSeq(stripped, 2, Len(stripped)))
        THEN [ok |-> TRUE, name |-> stripped[1], line |-> stripped]
        ELSE IF stripped[1] \in Locators /\ Len(stripped) = 1
        THEN [ok |-> TRUE, name |-> NoName, line |-> stripped]
        ELSE [ok |-> FALSE, name |-> NoName, line |-> stripped]

\* An OrderedDict: the list of its (key, value) pairs in insertion order.
OrderedKeys(od) == [i \in 1..Len(od) |-> od[i][1]]

OrderedGet(od, key) == od[CHOOSE i \in 1..Len(od) : od[i][1] = key][2]

\* A plausible slip: a key that is there keeps its value.
OrderedSetDefault(od, key, val) ==
    IF \E i \in 1..Len(od) : od[i][1] = key THEN od ELSE Append(od, <<key, val>>)

\* od[key] = val: a key that is there keeps its place and takes the new value.
OrderedPut(od, key, val) ==
    IF \E i \in 1..Len(od) : od[i][1] = key
    THEN [i \in 1..Len(od) |-> IF od[i][1] = key THEN <<key, val>> ELSE od[i]]
    ELSE Append(od, <<key, val>>)

\* The postcondition of parse_requirements.
RequirementsEnsure(od) == \A i \in 1..Len(od) : od[i][2].name = od[i][1]

\* requirements_parser.parse passes over a line that is empty or a comment.
ReqSkipLine ==
    /\ req_pc = "loop"
    /\ req_i < Len(req_text)
    /\ IsSkipped(req_text[req_i + 1])
    /\ req_i' = req_i + 1
    /\ UNCHANGED <<req_text, req_result, req_pc, req_error, req_returned>>

\* The body of "for req in requirements_parser.parse(text)" for a requirement
\* that has a name.
ReqAddLine ==
    /\ req_pc = "loop"
    /\ req_i < Len(req_text)
    /\ ~IsSkipped(req_text[req_i + 1])
    /\ LET req == ParseRequirementLine(req_text[req_i + 1])
       IN  /\ req.ok
           /\ req.name # NoName
           /\ req_result' = OrderedPut(req_result, req.name, Requirement(req.name, req.line))
    /\ req_i' = req_i + 1
    /\ UNCHANGED <<req_text, req_pc, req_error, req_returned>>

\* The requirement has no name, or the line cannot be parsed: ValueError.
ReqRaise ==
    /\ req_pc = "loop"
    /\ req_i < Len(req_text)
    /\ ~IsSkipped(req_text[req_i + 1])
    /\ LET req == ParseRequirementLine(req_text[req_i + 1])
       IN  /\ ~req.ok \/ req.name = NoName
           /\ req_error' = IF req.ok THEN "ValueError: The name is missing"
                                     ELSE "ValueError: Invalid requirements"
    /\ req_pc' = "raised"
    /\ UNCHANGED <<req_text, req_i, req_result, req_returned>>

\* "return result", with the postcondition checked.
ReqReturn ==
    /\ req_pc = "loop"
    /\ req_i = Len(req_text)
    /\ IF RequirementsEnsure(req_result)
       THEN /\ req_pc' = "returned"
            /\ req_returned' = [returned |-> TRUE, value |-> req_result]
            /\ UNCHANGED req_error
       ELSE /\ req_pc' = "raised"
            /\ req_error' = "ViolationError"
            /\ UNCHANGED req_returned
    /\ UNCHANGED <<req_text, req_i, req_result>>

InitRequirements ==
    /\ req_text \in SeqsUpTo(LineForms, MaxReqLines)
    /\ req_i = 0
    /\ req_result = <<>>
    /\ req_pc = "loop"
    /\ req_error = NoError
    /\ req_returned = NoResult
    /\ CollectIdle
    /\ ModuleMapIdle
    /\ PathsIdle
    /\ OthersIdle

NextRequirements ==
    /\ ReqSkipLine \/ ReqAddLine \/ ReqRaise \/ ReqReturn
    /\ UNCHANGED <<collectVars, tsvVars, ripVars, misVars, outVars, tblVars>>

SpecRequirements == InitRequirements /\ [][NextRequirements]_vars

\* The lines of the text that declare a package name, in order.
Declarations(text) ==
    SelectSeq(text, LAMBDA line : ~IsSkipped(line) /\ ParseRequirementLine(line).ok)

Declares(name, line) == ParseRequirementLine(line).name = name

\* The first and the last of the declarations that declare the name.
FirstDeclaration(decls, name) ==
    decls[CHOOSE i \in 1..Len(decls) :
              Declares(name, decls[i]) /\ \A j \in 1..(i - 1) : ~Declares(name, decls[j])]

LastDeclaration(decls, name) ==
    decls[CHOOSE i \in 1..Len(decls) :
              Declares(name, decls[i]) /\ \A j \in (i + 1)..Len(decls) : ~Declares(name, decls[j])]

\* The names in the order of their first declaration.
RECURSIVE FirstOccurrences(_)
FirstOccurrences(names) ==
    IF names = <<>> THEN <<>>
    ELSE LET before == FirstOccurrences(SubSeq(names, 1, Len(names) - 1))
             last == names[Len(names)]
         IN  IF last \in SeqToSet(before) THEN before ELSE Append(before, last)

DeclaredNames(text) ==
    LET decls == Declarations(text)
    IN  [i \in 1..Len(decls) |-> ParseRequirementLine(decls[i]).name]

\* C8 as claimed: a returned mapping has one entry per name, in the order of
\* the first declarations, and each holds the Requirement of the first line
\* that declares the name.
C8_AsClaimed ==
    req_pc = "returned" =>
        LET decls == Declarations(req_text)
            od == req_returned.value
        IN  /\ OrderedKeys(od) = FirstOccurrences(DeclaredNames(req_text))
            /\ \A i \in 1..Len(od) :
                   LET first == FirstDeclaration(decls, od[i][1])
                   IN  od[i][2] = Requirement(od[i][1], Strip(first))

\* C8, amended: a returned mapping has one entry per name, in the order of the
\* first declarations, and each holds the Requirement of the last line that
\* declares the name.
C8_LastDeclarationWins ==
    req_pc = "returned" =>
        LET decls == Declarations(req_text)
            od == req_returned.value
        IN  /\ OrderedKeys(od) = FirstOccurrences(DeclaredNames(req_text))
            /\ \A i \in 1..Len(od) :
                   LET last == LastDeclaration(decls, od[i][1])
                   IN  od[i][2] = Requirement(od[i][1], Strip(last))

\* C8 witness: foo is declared, then bar, then foo again with another
\* specifier; foo stays first and holds the later line.
C8_Witness ==
    /\ req_pc = "returned"
    /\ req_text = << <<"foo", "==1">>, <<"bar">>, <<" ", "foo", "==2", " ">> >>
    /\ req_returned.value =
           << <<"foo", [name |-> "foo", line |-> <<"foo", "==2", "\n">>]>>,
              <<"bar", [name |-> "bar", line |-> <<"bar", "\n">>]>> >>

\* ------------------------------------------------------------------
\* parse_module_to_requirement
\* ------------------------------------------------------------------

\* Characters of a module_to_requirement.tsv.
MaxTextLen == 5

\* The text is the list of its characters: two letters, the tab, the newline.
TsvChars == {"a", "b", "\t", "\n"}

\* filename = '<unknown>'
UnknownFilename == "<unknown>"

RECURSIVE SplitOn(_, _)
\* The pieces of a text between the occurrences of a separator; a text without
\* the separator is one piece.
SplitOn(text, sep) ==
    IF \A i \in 1..Len(text) : text[i] # sep THEN <<text>>
    ELSE LET at == CHOOSE i \in 1..Len(text) :
                       text[i] = sep /\ \A j \in 1..(i - 1) : text[j] # sep
         IN  <<SubSeq(text, 1, at - 1)>> \o SplitOn(SubSeq(text, at + 1, Len(text)), sep)

\* The lines of a text; what follows the last newline is a line when there is
\* something there.
LinesOf(text) ==
    LET pieces == SplitOn(text, "\n")
    IN  IF pieces[Len(pieces)] = <<>> THEN SubSeq(pieces, 1, Len(pieces) - 1) ELSE pieces

\* csv.reader(stream, dialect='excel-tab') for a text without quotes: one row
\* for each line, its fields split at the tabs, and no field for an empty line.
CsvRows(text) ==
    LET lines == LinesOf(text)
    IN  [i \in 1..Len(lines) |-> IF lines[i] = <<>> THEN <<>> ELSE SplitOn(lines[i], "\t")]

\* The ValueError of a row: the values formatted into "Expected two columns,
\* but got {} on line {} in {}: {}", in the order the code passes them.
ColumnsError(i, row, filename) ==
    [type |-> "ValueError", got |-> i + 1, on_line |-> Len(row), origin |-> filename, row |-> row]

\* The postconditions of parse_module_to_requirement: no key and no value
\* ends with a newline.
ModuleMapEnsure(od) ==
    \A i \in 1..Len(od) :
        /\ od[i][1] = <<>> \/ od[i][1][Len(od[i][1])] # "\n"
        /\ od[i][2] = <<>> \/ od[i][2][Len(od[i][2])] # "\n"

\* The body of "for i, row in enumerate(csv.reader(...))" for a row of two
\* fields.
TsvAddRow ==
    /\ tsv_pc = "loop"
    /\ tsv_i < Len(CsvRows(tsv_text))
    /\ LET row == CsvRows(tsv_text)[tsv_i + 1]
       IN  /\ Len(row) = 2
           /\ tsv_result' = OrderedPut(tsv_result, row[1], row[2])
    /\ tsv_i' = tsv_i + 1
    /\ UNCHANGED <<tsv_text, tsv_pc, tsv_error, tsv_returned>>

\* len(row) != 2: ValueError.
TsvRaise ==
    /\ tsv_pc = "loop"
    /\ tsv_i < Len(CsvRows(tsv_text))
    /\ LET row == CsvRows(tsv_text)[tsv_i + 1]
       IN  /\ Len(row) # 2
           /\ tsv_error' = ColumnsError(tsv_i, row, UnknownFilename)
    /\ tsv_pc' = "raised"
    /\ UNCHANGED <<tsv_text, tsv_i, tsv_result, tsv_returned>>

\* "return result", with the postconditions checked.
TsvReturn ==
    /\ tsv_pc = "loop"
    /\ tsv_i = Len(CsvRows(tsv_text))
    /\ IF ModuleMapEnsure(tsv_result)
       THEN /\ tsv_pc' = "returned"
            /\ tsv_returned' = [returned |-> TRUE, value |-> tsv_result]
            /\ UNCHANGED tsv_error
       ELSE /\ tsv_pc' = "raised"
            /\ tsv_error' = [type |-> "ViolationError"]
            /\ UNCHANGED tsv_returned
    /\ UNCHANGED <<tsv_text, tsv_i, tsv_result>>

InitModuleMap ==
    /\ tsv_text \in SeqsUpTo(TsvChars, MaxTextLen)
    /\ tsv_i = 0
    /\ tsv_result = <<>>
    /\ tsv_pc = "loop"
    /\ tsv_error = NoError
    /\ tsv_returned = NoResult
    /\ CollectIdle
    /\ RequirementsIdle
    /\ PathsIdle
    /\ OthersIdle

NextModuleMap ==
    /\ TsvAddRow \/ TsvRaise \/ TsvReturn
    /\ UNCHANGED <<collectVars, reqVars, ripVars, misVars, outVars, tblVars>>

SpecModuleMap == InitModuleMap /\ [][NextModuleMap]_vars

\* The rows of a text that do not have two fields.
Offending(text) == {i \in 1..Len(CsvRows(text)) : Len(CsvRows(text)[i]) # 2}

\* The 1-based line of the first offending row.
FirstOffending(text) == CHOOSE i \in Offending(text) : \A j \in Offending(text) : i <= j

\* C9: a text with a row that does not have two fields returns no mapping and
\* raises the error whose "got" is the number of columns of the first
\* offending row and whose "on line" is the 1-based line of that row.
C9_MessageNamesColumnsThenLine ==
    (tsv_pc # "loop" /\ Offending(tsv_text) # {}) =>
        LET line == FirstOffending(tsv_text)
        IN  /\ tsv_pc = "raised"
            /\ tsv_returned = NoResult
            /\ tsv_error.type = "ValueError"
            /\ tsv_error.got = Len(CsvRows(tsv_text)[line])
            /\ tsv_error.on_line = line
            /\ tsv_error.origin = UnknownFilename
            /\ tsv_error.row = CsvRows(tsv_text)[line]

\* C9 counterexample state: the second line has one column, and the error
\* says "got 2 on line 1".
C9_Swapped ==
    /\ tsv_pc = "raised"
    /\ tsv_text = <<"a", "\t", "b", "\n", "a">>
    /\ tsv_error.got = 2
    /\ tsv_error.on_line = 1

\* ------------------------------------------------------------------
\* resolve_initial_paths
\* ------------------------------------------------------------------

\* Paths given to resolve_initial_paths.
MaxInitialPaths == 3

\* The file system: a package directory with two modules, a text file and a
\* sub-package with one module, a directory without modules, a script, and a
\* path at which there is nothing.
WorkDir == <<"/", "w">>
PkgDir == WorkDir \o <<"pkg">>
SubDir == PkgDir \o <<"sub">>
EmptyDir == WorkDir \o <<"empty">>
FileA == PkgDir \o <<"a.py">>
FileB == SubDir \o <<"b.py">>
FileZ == PkgDir \o <<"z.py">>
Readme == PkgDir \o <<"readme.txt">>
Script == WorkDir \o <<"top.py">>
Missing == WorkDir \o <<"missing">>

Dirs == {PkgDir, SubDir, EmptyDir}
Files == {FileA, FileB, FileZ, Readme, Script}
PyFiles == {FileA, FileB, FileZ, Script}

\* The paths in the order of pathlib's comparison (part by part).
PathOrder == <<EmptyDir, PkgDir, FileA, Readme, SubDir, FileB, FileZ, Script>>

\* pth.is_file(), pth.is_dir()
IsFile(pth) == pth \in Files
IsDir(pth) == pth \in Dirs

IsBeneath(pth, dir) == Len(pth) > Len(dir) /\ SubSeq(pth, 1, Len(dir)) = dir

\* pth.glob("**/*.py"): the modules at any depth beneath the directory.
Glob(pth) == {f \in PyFiles : IsBeneath(f, pth)}

\* sorted(paths)
Sorted(paths) == SelectSeq(PathOrder, LAMBDA p : p \in paths)

RECURSIVE ExpandAll(_, _)
\* A plausible slip: every module beneath the directory is appended.
ExpandAll(subpths, st) ==
    IF subpths = <<>> THEN st
    ELSE ExpandAll(Tail(subpths),
                   [result |-> Append(st.result, Head(subpths)),
                    seen_pths |-> st.seen_pths \cup {Head(subpths)}])

RECURSIVE ExpandUnseen(_, _)
\* "for subpth in sorted(...)": a module that was not seen is appended.
ExpandUnseen(subpths, st) ==
    IF subpths = <<>> THEN st
    ELSE ExpandUnseen(Tail(subpths),
                      IF Head(subpths) \notin st.seen_pths
                      THEN [result |-> Append(st.result, Head(subpths)),
                            seen_pths |-> st.seen_pths \cup {Head(subpths)}]
                      ELSE st)

\* The postcondition on the length of the result.
PathsEnsure(paths, res) == IF paths # <<>> THEN Len(res) >= Len(paths) ELSE res = <<>>

\* "if not initial_paths: return []"
RipEmpty ==
    /\ rip_pc = "loop"
    /\ initial_paths = <<>>
    /\ rip_pc' = "returned"
    /\ rip_returned' = [returned |-> TRUE, value |-> <<>>]
    /\ UNCHANGED <<initial_paths, rip_i, seen_pths, rip_result, rip_error>>

\* The path is a file: it is appended.
RipFile ==
    /\ rip_pc = "loop"
    /\ rip_i < Len(initial_paths)
    /\ LET pth == initial_paths[rip_i + 1]
       IN  /\ IsFile(pth)
           /\ rip_result' = Append(rip_result, pth)
           /\ seen_pths' = seen_pths \cup {pth}
    /\ rip_i' = rip_i + 1
    /\ UNCHANGED <<initial_paths, rip_pc, rip_error, rip_returned>>

\* The path is a directory: its modules, sorted, are appended unless seen.
RipDir ==
    /\ rip_pc = "loop"
    /\ rip_i < Len(initial_paths)
    /\ LET pth == initial_paths[rip_i + 1]
           st == ExpandUnseen(Sorted(Glob(pth)), [result |-> rip_result, seen_pths |-> seen_pths])
       IN  /\ ~IsFile(pth)
           /\ IsDir(pth)
           /\ rip_result' = st.result
           /\ seen_pths' = st.seen_pths
    /\ rip_i' = rip_i + 1
    /\ UNCHANGED <<initial_paths, rip_pc, rip_error, rip_returned>>

\* The path is neither: NotImplementedError.
RipRaise ==
    /\ rip_pc = "loop"
    /\ rip_i < Len(initial_paths)
    /\ LET pth == initial_paths[rip_i + 1]
       IN  ~IsFile(pth) /\ ~IsDir(pth)
    /\ rip_pc' = "raised"
    /\ rip_error' = "NotImplementedError"
    /\ UNCHANGED <<initial_paths, rip_i, seen_pths, rip_result, rip_returned>>

\* "return result", with the postcondition checked.
RipReturn ==
    /\ rip_pc = "loop"
    /\ initial_paths # <<>>
    /\ rip_i = Len(initial_paths)
    /\ IF PathsEnsure(initial_paths, rip_result)
       THEN /\ rip_pc' = "returned"
            /\ rip_returned' = [returned |-> TRUE, value |-> rip_result]
            /\ UNCHANGED rip_error
       ELSE /\ rip_pc' = "raised"
            /\ rip_error' = "ViolationError"
            /\ UNCHANGED rip_returned
    /\ UNCHANGED <<initial_paths, rip_i, seen_pths, rip_result>>

InitPaths ==
    /\ initial_paths \in SeqsUpTo(Dirs \cup Files \cup {Missing}, MaxInitialPaths)
    /\ rip_i = 0
    /\ seen_pths = {}
    /\ rip_result = <<>>
    /\ rip_pc = "loop"
    /\ rip_error = NoError
    /\ rip_returned = NoResult
    /\ CollectIdle
    /\ RequirementsIdle
    /\ ModuleMapIdle
    /\ OthersIdle

NextPaths ==
    /\ RipEmpty \/ RipFile \/ RipDir \/ RipRaise \/ RipReturn
    /\ UNCHANGED <<collectVars, reqVars, tsvVars, misVars, outVars, tblVars>>

SpecPaths == InitPaths /\ [][NextPaths]_vars

\* What a path stands for: itself, or the modules beneath it in order.
Expansion(pth) == IF IsFile(pth) THEN <<pth>> ELSE Sorted(Glob(pth))

RECURSIVE ExpansionOfAll(_)
ExpansionOfAll(paths) ==
    IF paths = <<>> THEN <<>> ELSE Expansion(Head(paths)) \o ExpansionOfAll(Tail(paths))

\* How many times a value is in a list.
Count(s, x) == Cardinality({i \in 1..Len(s) : s[i] = x})

\* The file comes from the path: it is the path, or a module beneath it.
Mentions(pth, f) == f \in SeqToSet(Expansion(pth))

\* The first path that mentions the file is a directory.
FirstMentionIsDir(paths, f) ==
    \E i \in 1..Len(paths) :
        /\ Mentions(paths[i], f)
        /\ IsDir(paths[i])
        /\ \A j \in 1..(i - 1) : ~Mentions(paths[j], f)

\* C10 as claimed: the returned list holds every resulting file once, in the
\* order of the first occurrences.
C10_AsClaimed ==
    rip_pc = "returned" =>
        rip_returned.value = FirstOccurrences(ExpansionOfAll(initial_paths))

\* C10, amended: the returned list holds the resulting files in the order of
\* their first occurrences; a file is there once for each time it is listed
\* itself, and once more when the first path it comes from is a directory
\* (a directory adds no file that the list already has).
C10_DirectoriesAddOnlyNewFiles ==
    rip_pc = "returned" =>
        LET res == rip_returned.value
        IN  /\ FirstOccurrences(res) = FirstOccurrences(ExpansionOfAll(initial_paths))
            /\ \A f \in Files :
                   Count(res, f) = Count(initial_paths, f)
                                   + (IF FirstMentionIsDir(initial_paths, f) THEN 1 ELSE 0)

\* C10 witness: a directory, a file beneath it, and the directory again; the
\* file is there twice and the second expansion adds nothing.
C10_Witness ==
    /\ rip_pc = "returned"
    /\ initial_paths = <<PkgDir, FileA, PkgDir>>
    /\ rip_returned.value = <<FileA, FileB, FileZ, FileA>>

\* C11: a call with paths that are all existing files or directories returns,
\* and the list returned is at least as long as the list given (empty for the
\* empty list).
C11_ResultIsNoShorterThanInput ==
    (rip_pc # "loop" /\ \A i \in 1..Len(initial_paths) : IsFile(initial_paths[i]) \/ IsDir(initial_paths[i])) =>
        /\ rip_pc = "returned"
        /\ PathsEnsure(initial_paths, rip_returned.value)

\* C11 counterexample state: a directory without modules is the only path;
\* the result is empty, the postcondition fails and nothing is returned.
C11_EmptyDirectoryViolates ==
    /\ initial_paths = <<EmptyDir>>
    /\ rip_pc = "raised"
    /\ rip_error = "ViolationError"
    /\ rip_result = <<>>
    /\ rip_returned = NoResult

\* ------------------------------------------------------------------
\* missing_requirements
\* ------------------------------------------------------------------

\* Items of the module map given to missing_requirements.
MaxMapItems == 3

\* The modules and the packages of a module map.
MappedModules == {"PIL", "PIL.Image", "yaml"}
MappedPackages == {"pillow", "pyyaml"}

\* The module maps: the (module, package) items of an OrderedDict, no module
\* twice.
ModuleMaps ==
    {m \in SeqsUpTo(MappedModules \X MappedPackages, MaxMapItems) : NoDuplicates(OrderedKeys(m))}

\* module_to_requirement.values()
OrderedValues(od) == [i \in 1..Len(od) |-> od[i][2]]

\* The body of "for requirement_name in module_to_requirement.values()" for a
\* name that is appended: nothing is added to seen.
MisAppend ==
    /\ mis_pc = "loop"
    /\ mis_i < Len(mis_module_to_requirement)
    /\ LET requirement_name == OrderedValues(mis_module_to_requirement)[mis_i + 1]
       IN  /\ requirement_name \notin mis_requirements /\ requirement_name \notin mis_seen
           /\ mis_result' = Append(mis_result, requirement_name)
    /\ mis_i' = mis_i + 1
    /\ UNCHANGED <<mis_module_to_requirement, mis_requirements, mis_seen, mis_pc, mis_returned>>

\* The body for a name that is in the registry, or in seen.
MisSkip ==
    /\ mis_pc = "loop"
    /\ mis_i < Len(mis_module_to_requirement)
    /\ LET requirement_name == OrderedValues(mis_module_to_requirement)[mis_i + 1]
       IN  ~(requirement_name \notin mis_requirements /\ requirement_name \notin mis_seen)
    /\ mis_i' = mis_i + 1
    /\ UNCHANGED <<mis_module_to_requirement, mis_requirements, mis_result, mis_seen, mis_pc,
                   mis_returned>>

\* "return result"; the postcondition is checked only with icontract.SLOW.
MisReturn ==
    /\ mis_pc = "loop"
    /\ mis_i = Len(mis_module_to_requirement)
    /\ mis_pc' = "returned"
    /\ mis_returned' = [returned |-> TRUE, value |-> mis_result]
    /\ UNCHANGED <<mis_module_to_requirement, mis_requirements, mis_i, mis_result, mis_seen>>

InitMissing ==
    /\ mis_module_to_requirement \in ModuleMaps
    /\ mis_requirements \in SUBSET MappedPackages
    /\ mis_i = 0
    /\ mis_result = <<>>
    /\ mis_seen = {}
    /\ mis_pc = "loop"
    /\ mis_returned = NoResult
    /\ CollectIdle
    /\ RequirementsIdle
    /\ ModuleMapIdle
    /\ PathsIdle
    /\ OutputIdle
    /\ TableIdle

NextMissing ==
    /\ MisAppend \/ MisSkip \/ MisReturn
    /\ UNCHANGED <<collectVars, reqVars, tsvVars, ripVars, outVars, tblVars>>

SpecMissing == InitMissing /\ [][NextMissing]_vars

\* The mapped packages that the registry does not have, in the order of the
\* module map.
MissingValues(od, registry) == SelectSeq(OrderedValues(od), LAMBDA name : name \notin registry)

\* C12: the list returned holds the mapped packages that are not in the
\* registry, each once, in the order of their first occurrence in the module
\* map; it is empty exactly when every mapped package is in the registry.
C12_MissingNamesOnceEach ==
    mis_pc = "returned" =>
        /\ mis_returned.value =
               FirstOccurrences(MissingValues(mis_module_to_requirement, mis_requirements))
        /\ NoDuplicates(mis_returned.value)
        /\ mis_returned.value = <<>> <=>
               SeqToSet(OrderedValues(mis_module_to_requirement)) \subseteq mis_requirements

\* C12 counterexample state: two modules map to the same package, which the
\* registry does not have; the package is listed twice.
C12_ListedTwice ==
    /\ mis_pc = "returned"
    /\ mis_module_to_requirement = << <<"PIL", "pillow">>, <<"PIL.Image", "pillow">> >>
    /\ mis_requirements = {}
    /\ mis_returned.value = <<"pillow", "pillow">>

\* ------------------------------------------------------------------
\* _format_table
\* ------------------------------------------------------------------

\* Rows of a table, and cells of a row.
MaxRows == 3
MaxCols == 2

\* The cells: of different widths, one with a newline at its end.
Cells == {"a", "bb", "c\n"}

\* len(table[0]) of an empty list
IndexError == "IndexError"

\* A violated precondition or postcondition.
ViolationError == "ViolationError"

RECURSIVE Repeat(_, _)
\* s * n
Repeat(s, n) == IF n <= 0 THEN "" ELSE s \o Repeat(s, n - 1)

\* cell.ljust(width)
LJust(cell, width) == cell \o Repeat(" ", width - Len(cell))

RECURSIVE Join(_, _)
\* sep.join(parts)
Join(sep, parts) ==
    IF parts = <<>> THEN ""
    ELSE IF Len(parts) = 1 THEN parts[1]
    ELSE parts[1] \o sep \o Join(sep, Tail(parts))

\* max(values) of a non-empty list
RECURSIVE Max(_)
Max(values) ==
    IF Len(values) = 1 THEN values[1]
    ELSE LET rest == Max(Tail(values))
         IN  IF values[1] >= rest THEN values[1] ELSE rest

\* s.endswith("\n")
EndsWithNewline(s) == Len(s) > 0 /\ SubSeq(s, Len(s), Len(s)) = "\n"

\* The precondition of _format_table: no rows, or rows of one length.
TableRequire(t) == t = <<>> \/ \A i \in 1..Len(t) : Len(t[i]) = Len(t[1])

\* The postconditions of _format_table.
TableEnsure(t, res) == (t = <<>> => res = "") /\ ~EndsWithNewline(res)

\* col_widths
ColWidths(t) == [i \in 1..Len(t[1]) |-> Max([r \in 1..Len(t) |-> Len(t[r][i])])]

\* The line of a row: its cells, padded, joined with " | ".
RowLine(row, col_widths) ==
    Join(" | ", [i \in 1..Len(row) |-> LJust(row[i], col_widths[i])])

\* The line under the first row.
BorderLine(col_widths) ==
    Join("-+-", [i \in 1..Len(col_widths) |-> Repeat("-", col_widths[i])])

\* lines, for a table with a first row
TableLines(t) ==
    LET col_widths == ColWidths(t)
    IN  <<RowLine(t[1], col_widths), BorderLine(col_widths)>>
        \o [i \in 1..(Len(t) - 1) |-> RowLine(t[i + 1], col_widths)]

\* The body of _format_table, for a table with a first row.
FormatTable(t) == Join("\n", TableLines(t))

\* The precondition fails: the rows are not of one length.
TblRequireFails ==
    /\ tbl_pc = "called"
    /\ ~TableRequire(table)
    /\ tbl_pc' = "raised"
    /\ tbl_error' = ViolationError
    /\ UNCHANGED <<table, tbl_returned>>

\* "cols = len(table[0])" of a table without rows.
TblIndexError ==
    /\ tbl_pc = "called"
    /\ TableRequire(table)
    /\ table = <<>>
    /\ tbl_pc' = "raised"
    /\ tbl_error' = IndexError
    /\ UNCHANGED <<table, tbl_returned>>

\* The body ends and a postcondition fails.
TblEnsureFails ==
    /\ tbl_pc = "called"
    /\ TableRequire(table)
    /\ table # <<>>
    /\ ~TableEnsure(table, FormatTable(table))
    /\ tbl_pc' = "raised"
    /\ tbl_error' = ViolationError
    /\ UNCHANGED <<table, tbl_returned>>

\* "return result"
TblReturn ==
    /\ tbl_pc = "called"
    /\ TableRequire(table)
    /\ table # <<>>
    /\ TableEnsure(table, FormatTable(table))
    /\ tbl_pc' = "returned"
    /\ tbl_returned' = [returned |-> TRUE, value |-> FormatTable(table)]
    /\ UNCHANGED <<table, tbl_error>>

InitTable ==
    /\ table \in SeqsUpTo(SeqsUpTo(Cells, MaxCols), MaxRows)
    /\ tbl_pc = "called"
    /\ tbl_error = NoError
    /\ tbl_returned = NoResult
    /\ CollectIdle
    /\ RequirementsIdle
    /\ ModuleMapIdle
    /\ PathsIdle
    /\ MissingIdle
    /\ OutputIdle

NextTable ==
    /\ TblRequireFails \/ TblIndexError \/ TblEnsureFails \/ TblReturn
    /\ UNCHANGED <<collectVars, reqVars, tsvVars, ripVars, misVars, outVars>>

SpecTable == InitTable /\ [][NextTable]_vars

\* C19: every call with a table whose rows are of one length returns: the
\* empty string for the table without rows, and a string that does not end
\* with a newline for the others.
C19_ContractHoldsForRectangularTables ==
    (tbl_pc # "called" /\ TableRequire(table)) =>
        /\ tbl_pc = "returned"
        /\ table = <<>> => tbl_returned.value = ""
        /\ ~EndsWithNewline(tbl_returned.value)

\* C19 counterexample state: the table without rows passes the precondition
\* and the call ends with IndexError.
C19_EmptyTableRaises ==
    /\ table = <<>>
    /\ tbl_pc = "raised"
    /\ tbl_error = IndexError
    /\ tbl_returned = NoResult

\* ------------------------------------------------------------------
\* output
\* ------------------------------------------------------------------

\* Unresolved modules of a Package given to output.
MaxUnresolved == 2

\* FORMATS
FORMATS == {"verbose", "json"}

\* a_format is None; the argument is not given.
NoFormat == "<None>"
Omitted == "<omitted>"

\* The a_format arguments: the formats, one that is none of them, None, and
\* the argument left out.
FormatArguments == FORMATS \cup {"xml", NoFormat, Omitted}

\* The parameter's default: a_format: str = 'verbose'
BoundFormat(argument) == IF argument = Omitted THEN "verbose" ELSE argument

\* The precondition of output.
OutputRequire(format) == IF format # NoFormat THEN format \in FORMATS ELSE TRUE

\* The Packages: requirements of a registry, files of the code base, and
\* unresolved modules without a name twice.
OutPackages ==
    {[requirements |-> RegistryOf(S), rel_paths |-> P, unresolved_modules |-> U] :
        S \in SUBSET {"pillow", "dataclasses"},
        P \in SUBSET RelPaths,
        U \in {u \in SeqsUpTo({UnresolvedModule(n, p) : n \in {"x", "y"}, p \in RelPaths},
                              MaxUnresolved) :
                  NoDuplicates([i \in 1..Len(u) |-> u[i].name])}}

\* The strings that are sorted, in the order of str's comparison.
StringOrder == <<"a.py", "b.py", "c.py", "dataclasses", "pillow", "x", "y">>

\* sorted(strings)
SortedStrings(strings) == SelectSeq(StringOrder, LAMBDA s : s \in strings)

\* rel_pth.as_posix()
AsPosix(pth) == Join("/", pth)

\* The str of a line kept as its tokens.
LineText(tokens) == Join("", tokens)

IsWhitespace(c) == c = " " \/ c = "\n" \/ c = "\t"

RECURSIVE LStripText(_)
LStripText(s) ==
    IF Len(s) > 0 /\ IsWhitespace(SubSeq(s, 1, 1)) THEN LStripText(SubSeq(s, 2, Len(s))) ELSE s

RECURSIVE RStripText(_)
RStripText(s) ==
    IF Len(s) > 0 /\ IsWhitespace(SubSeq(s, Len(s), Len(s)))
    THEN RStripText(SubSeq(s, 1, Len(s) - 1)) ELSE s

\* s.strip()
StripText(s) == RStripText(LStripText(s))

\* repr(s) of a str without quotes, backslashes and control characters
Repr(s) == "'" \o s \o "'"

\* sorted(package.requirements.items()): the Requirements by package name.
SortedRequirements(pkg) ==
    LET names == SortedStrings(DOMAIN pkg.requirements)
    IN  [i \in 1..Len(names) |-> pkg.requirements[names[i]]]

\* sorted(package.rel_paths)
SortedRelPaths(pkg) ==
    LET names == SortedStrings({AsPosix(p) : p \in pkg.rel_paths})
    IN  [i \in 1..Len(names) |-> CHOOSE p \in pkg.rel_paths : AsPosix(p) = names[i]]

\* sorted(package.unresolved_modules, key=lambda mod: mod.name)
SortedUnresolved(pkg) ==
    LET names == SortedStrings({m.name : m \in SeqToSet(pkg.unresolved_modules)})
    IN  [i \in 1..Len(names) |-> CHOOSE m \in SeqToSet(pkg.unresolved_modules) : m.name = names[i]]

\* ---- _output_verbose

\* blocks: the tables and the list that the Package has something for.
VerboseBlocks(pkg) ==
    LET reqs == SortedRequirements(pkg)
        pths == SortedRelPaths(pkg)
        mods == SortedUnresolved(pkg)
        external ==
            IF DOMAIN pkg.requirements # {}
            THEN <<"External dependencies:\n"
                   \o FormatTable(<< <<"Package name", "Requirement spec">> >>
                                  \o [i \in 1..Len(reqs) |->
                                         <<reqs[i].name, Repr(StripText(LineText(reqs[i].line)))>>])>>
            ELSE <<>>
        local ==
            IF pkg.rel_paths # {}
            THEN <<Join("\n", <<"Local dependencies:">> \o [i \in 1..Len(pths) |-> AsPosix(pths[i])])>>
            ELSE <<>>
        unresolved ==
            IF pkg.unresolved_modules # <<>>
            THEN <<"Unresolved dependencies:\n"
                   \o FormatTable(<< <<"Module", "Imported from">> >>
                                  \o [i \in 1..Len(mods) |->
                                         <<mods[i].name, AsPosix(mods[i].imported_from)>>])>>
            ELSE <<>>
    IN  external \o local \o unresolved

\* What _output_verbose writes: the blocks with an empty line between them,
\* and a newline.
OutputVerbose(pkg) == Join("\n\n", VerboseBlocks(pkg)) \o "\n"

\* ---- json.dump(obj=package.to_mapping(), fp=out, indent=2)

RECURSIVE JsonEscape(_)
\* The newline of a string is written as a backslash and an n.
JsonEscape(s) ==
    IF Len(s) = 0 THEN ""
    ELSE (IF SubSeq(s, 1, 1) = "\n" THEN "\\n" ELSE SubSeq(s, 1, 1))
         \o JsonEscape(SubSeq(s, 2, Len(s)))

\* A string as a JSON document: one line.
JsonString(s) == <<"\"" \o JsonEscape(s) \o "\"">>

\* The lines of a nested document, moved in by the indent.
Indented(lines) == [i \in 1..Len(lines) |-> "  " \o lines[i]]

\* A comma after the last line.
WithComma(lines) ==
    [i \in 1..Len(lines) |-> IF i = Len(lines) THEN lines[i] \o "," ELSE lines[i]]

RECURSIVE JsonItems(_)
\* The items of an object or an array: each but the last ends with a comma.
JsonItems(items) ==
    IF Len(items) = 1 THEN Indented(items[1])
    ELSE Indented(WithComma(items[1])) \o JsonItems(Tail(items))

\* A list as a JSON document; the items are documents.
JsonArray(items) == IF items = <<>> THEN <<"[]">> ELSE <<"[">> \o JsonItems(items) \o <<"]">>

\* A key and the lines of its value.
JsonMember(key, value) == <<JsonString(key)[1] \o ": " \o value[1]>> \o Tail(value)

\* An OrderedDict as a JSON document; the members are (key, document) pairs.
JsonObject(members) ==
    IF members = <<>> THEN <<"{}">>
    ELSE <<"{">>
         \o JsonItems([i \in 1..Len(members) |-> JsonMember(members[i][1], members[i][2])])
         \o <<"}">>

\* Requirement.to_mapping
RequirementToMapping(req) ==
    JsonObject(<< <<"name", JsonString(req.name)>>, <<"line", JsonString(LineText(req.line))>> >>)

\* UnresolvedModule.to_mapping
UnresolvedToMapping(mod) ==
    JsonObject(<< <<"name", JsonString(mod.name)>>,
                  <<"imported_from", JsonString(AsPosix(mod.imported_from))>> >>)

\* Package.to_mapping
PackageToMapping(pkg) ==
    LET reqs == SortedRequirements(pkg)
        pths == SortedRelPaths(pkg)
        mods == pkg.unresolved_modules
    IN  JsonObject(<<
            <<"requirements",
              JsonObject([i \in 1..Len(reqs) |-> <<reqs[i].name, RequirementToMapping(reqs[i])>>])>>,
            <<"rel_paths", JsonArray([i \in 1..Len(pths) |-> JsonString(AsPosix(pths[i]))])>>,
            <<"unresolved_modules",
              JsonArray([i \in 1..Len(mods) |-> UnresolvedToMapping(mods[i])])>> >>)

\* What json.dump writes.
OutputJson(pkg) == Join("\n", PackageToMapping(pkg))

\* ---- output

\* The precondition fails: a format that is not one of FORMATS.
OutRequireFails ==
    /\ out_pc = "called"
    /\ ~OutputRequire(BoundFormat(a_format))
    /\ out_pc' = "raised"
    /\ out_error' = ViolationError
    /\ UNCHANGED <<out_package, a_format, out_stream>>

\* a_format == 'verbose'
OutVerbose ==
    /\ out_pc = "called"
    /\ OutputRequire(BoundFormat(a_format))
    /\ BoundFormat(a_format) = "verbose"
    /\ out_stream' = out_stream \o OutputVerbose(out_package)
    /\ out_pc' = "returned"
    /\ UNCHANGED <<out_package, a_format, out_error>>

\* a_format == 'json'
OutJson ==
    /\ out_pc = "called"
    /\ OutputRequire(BoundFormat(a_format))
    /\ BoundFormat(a_format) # "verbose"
    /\ BoundFormat(a_format) = "json"
    /\ out_stream' = out_stream \o OutputJson(out_package)
    /\ out_pc' = "returned"
    /\ UNCHANGED <<out_package, a_format, out_error>>

\* else: raise ValueError("Unexpected format: ...")
OutRaise ==
    /\ out_pc = "called"
    /\ OutputRequire(BoundFormat(a_format))
    /\ BoundFormat(a_format) # "verbose"
    /\ BoundFormat(a_format) # "json"
    /\ out_pc' = "raised"
    /\ out_error' = "ValueError"
    /\ UNCHANGED <<out_package, a_format, out_stream>>

InitOutput ==
    /\ out_package \in OutPackages
    /\ a_format \in FormatArguments
    /\ out_stream = ""
    /\ out_pc = "called"
    /\ out_error = NoError
    /\ CollectIdle
    /\ RequirementsIdle
    /\ ModuleMapIdle
    /\ PathsIdle
    /\ MissingIdle
    /\ TableIdle

NextOutput ==
    /\ OutRequireFails \/ OutVerbose \/ OutJson \/ OutRaise
    /\ UNCHANGED <<collectVars, reqVars, tsvVars, ripVars, misVars, tblVars>>

SpecOutput == InitOutput /\ [][NextOutput]_vars

\* C13: with no format set (the argument left out, or None) the verbose
\* rendering is written; a call raises only for a format that is neither
\* 'verbose', 'json' nor unset.
C13_UnsetFormatWritesVerbose ==
    out_pc # "called" =>
        /\ a_format \in {Omitted, NoFormat} =>
               out_pc = "returned" /\ out_stream = OutputVerbose(out_package)
        /\ out_pc = "raised" => a_format \notin FORMATS \cup {Omitted, NoFormat}

\* C13 counterexample state: a_format is None, the precondition admits it,
\* and the call raises ValueError with nothing written.
C13_NoneRaises ==
    /\ a_format = NoFormat
    /\ out_pc = "raised"
    /\ out_error = "ValueError"
    /\ out_stream = ""

\* ------------------------------------------------------------------
\* collect_dependency_graph: the iteration
\* ------------------------------------------------------------------

\* The path on top of the stack, which the next iteration pops.
Top == stack[Len(stack)]

\* An iteration pops a path that was not visited.
PopsNew == pc = "loop" /\ stack # <<>> /\ ~AlreadyVisited(Locals, Top)

\* An iteration pops a path that was visited.
PopsVisited == pc = "loop" /\ stack # <<>> /\ AlreadyVisited(Locals, Top)

\* The entries of a list after its first n.
Added(before, after) == SubSeq(after, Len(before) + 1, Len(after))

\* C14: an iteration that resolves a file and ends normally treats the names
\* reported as not importable by precedence: a name of the module map records
\* the Requirement of its package and nothing else, also when it is a name of
\* the standard library; another name of the standard library changes
\* nothing; any other name is appended as an UnresolvedModule credited to the
\* file, unless it was recorded before.
C14_ThreeEffectsByPrecedence ==
    [][(PopsNew /\ pc' = "loop") =>
          LET reported == ReportedBad(Top)
              mapped == reported \cap DOMAIN module_to_requirement
              other == (reported \ mapped) \ STDLIB_SET
              added == Added(package.unresolved_modules, package'.unresolved_modules)
          IN  /\ DOMAIN package'.requirements =
                     DOMAIN package.requirements \cup {module_to_requirement[n] : n \in mapped}
              /\ \A k \in DOMAIN package'.requirements :
                     package'.requirements[k] = requirements[k]
              /\ unresolved_module_set' = unresolved_module_set \cup other
              /\ IsPrefixOf(package.unresolved_modules, package'.unresolved_modules)
              /\ NoDuplicates(UnresolvedNames([unresolved_modules |-> added]))
              /\ SeqToSet(added) =
                     {UnresolvedModule(n, Top) : n \in other \ unresolved_module_set}]_vars

\* C14 witness: a file imports dataclasses, which is in the module map and in
\* the standard library, and x, which is in neither; the Requirement of
\* dataclasses is recorded and x alone is unresolved.
C14_Witness ==
    /\ imports["a"] = <<"dataclasses", "x">>
    /\ processed = <<RelPathOf("a")>>
    /\ pc = "loop"
    /\ DOMAIN package.requirements = {"dataclasses"}
    /\ package.unresolved_modules = <<UnresolvedModule("x", RelPathOf("a"))>>

\* C15: an iteration that pops a path not in rel_paths and ends normally
\* leaves rel_paths as it was plus that path, whatever the resolver reports;
\* the assertion at the end of the iteration never fails; an iteration that
\* pops a visited path changes neither rel_paths, requirements nor
\* unresolved_modules.
C15_OnePathAddedPerIteration ==
    /\ [][(PopsNew /\ pc' = "loop") =>
             /\ Top \notin package.rel_paths
             /\ package'.rel_paths = package.rel_paths \cup {Top}]_vars
    /\ [](error # "AssertionError: one dependency at a step")
    /\ [][PopsVisited => package' = package /\ pc' = "loop"]_vars

\* C15 witness: a file that imports nothing has been resolved, and it is the
\* one path of rel_paths; then it was popped again and nothing changed.
C15_Witness ==
    /\ imports["a"] = <<>>
    /\ rel_paths = <<RelPathOf("a"), RelPathOf("a")>>
    /\ processed = <<RelPathOf("a")>>
    /\ stack = <<>>
    /\ pc = "loop"
    /\ package.rel_paths = {RelPathOf("a")}

\* The modules the resolver reports for a file as found.
ReportedModules(rel_pth) == Report(rel_pth).modules

\* The names of the modules reported as found without a file.
Fileless(rel_pth) == {m.name : m \in {m \in SeqToSet(ReportedModules(rel_pth)) : m.file = None}}

\* The files of the modules reported as found with a file, in order.
ReportedFiles(rel_pth) ==
    LET with_file == SelectSeq(ReportedModules(rel_pth), LAMBDA m : m.file # None)
    IN  [i \in 1..Len(with_file) |-> RelativeTo(with_file[i].file, RootDir)]

\* The mapped packages of the names reported for a file are in the registry.
MappedAreRegistered(rel_pth) ==
    \A n \in ReportedMapped(rel_pth) : module_to_requirement[n] \in DOMAIN requirements

\* C17: a module reported as found without a file is accepted exactly when
\* its name is in the standard-library set. When every such module of the
\* file is, the iteration goes on and pushes the files of the other modules
\* only; when one is not, the call raises and returns no Package.
C17_FilelessOnlyFromStdlib ==
    /\ [][(PopsNew /\ MappedAreRegistered(Top)) =>
             IF Fileless(Top) \subseteq STDLIB_SET
             THEN /\ pc' = "loop"
                  /\ stack' = SubSeq(stack, 1, Len(stack) - 1) \o ReportedFiles(Top)
             ELSE /\ pc' = "raised"
                  /\ error' = "AssertionError: no __file__"
                  /\ result' = NoResult]_vars
    /\ [](pc = "raised" => result = NoResult)

\* C17 witness: a file that imports sys, which has no file and is in the
\* standard-library set, was resolved and the traversal went on to a file
\* that imports _ext, which has no file and is not in the set; the call
\* raised.
C17_Witness ==
    /\ imports["a"] = <<"sys">>
    /\ imports["b"] = <<"_ext">>
    /\ processed = <<RelPathOf("a"), RelPathOf("b")>>
    /\ pc = "raised"
    /\ error = "AssertionError: no __file__"
    /\ result = NoResult

\* Every unresolved module of the Package is credited to a file of the Package.
CreditedToPackageFiles(pkg) ==
    \A i \in 1..Len(pkg.unresolved_modules) :
        pkg.unresolved_modules[i].imported_from \in pkg.rel_paths

\* C18: at the start of every iteration, and in the Package returned, the
\* file every unresolved module is credited to is one of rel_paths.
C18_ImportersAreInThePackage ==
    /\ pc = "loop" => CreditedToPackageFiles(package)
    /\ Returned => CreditedToPackageFiles(result.package)

\* C18 witness: the seed imports a file of the code base, which imports a
\* module that is not found; the resolver follows the import, so the module
\* is credited to the seed, which is in rel_paths of the Package returned.
C18_Witness ==
    /\ Returned
    /\ rel_paths = <<RelPathOf("a")>>
    /\ imports["a"] = <<"b">>
    /\ imports["b"] = <<"x">>
    /\ result.package.rel_paths = {RelPathOf("a"), RelPathOf("b")}
    /\ result.package.unresolved_modules = <<UnresolvedModule("x", RelPathOf("a"))>>

====
